---- MODULE Spec2Model ----
(***************************************************************************)
(* A model of pluralRuleParser(rule, number) of CLDRPluralRuleParser.js:   *)
(* the driver (truncate at '@', trim, empty rule, start(), parse error,    *)
(* warning) as a state machine, and the combinator parser it runs as       *)
(* recursive operators over the rule text and the shared cursor pos.       *)
(*                                                                         *)
(* Text is a sequence of one-character strings.  A JavaScript value is a   *)
(* tagged record [t, v]: "null", "undef", "bool", "num", "str", "arr".     *)
(* A JavaScript number is held in hundredths (1.5 is 150), NaN is NaN.     *)
(* A parser run yields [ok, val, pos, tr]: the value returned (ok iff it   *)
(* is not null), the cursor after the call, and the parser calls made, in  *)
(* the order they returned,                                                *)
(* each as <<name, cursor at entry, cursor at return, succeeded>>.         *)
(***************************************************************************)
EXTENDS Integers, Sequences, FiniteSets

VARIABLES
    ruleArg,    \* the rule argument as the caller passed it
    number,     \* the number argument (its text)
    rule,       \* the local `rule`: reassigned by line 45
    pos,        \* the shared cursor
    result,     \* the local `result` of line 436
    trace,      \* the parser calls of start(), in return order
    outcome,    \* "none", "true" / "false" (returned), "throw"
    warned,     \* console.log of line 448 was called
    pc          \* "call", "truncated", "parsed", "done"

vars == <<ruleArg, number, rule, pos, result, trace, outcome, warned, pc>>

----------------------------------------------------------------------------
(* Bounds of the inputs.                                                   *)

\* largest integer literal written in a rule
MaxValue == 2
\* largest integer part of the number argument
MaxInt == 2
\* most relations joined by and / or in one condition
MaxRelations == 3
\* most items of a range list
MaxItems == 3

----------------------------------------------------------------------------
(* JavaScript values and string primitives.                                *)

Null == [t |-> "null", v |-> 0]
Undefined == [t |-> "undef", v |-> 0]
Bool(b) == [t |-> "bool", v |-> b]
Num(x) == [t |-> "num", v |-> x]
Str(s) == [t |-> "str", v |-> s]
Arr(a) == [t |-> "arr", v |-> a]

IsNull(x) == x.t = "null"

\* NaN, apart from every number the model holds (all are >= 0)
NaN == 0 - 1

DigitChars == <<"0", "1", "2", "3", "4", "5", "6", "7", "8", "9">>

IsDigit(c) == \E d \in 1..10 : DigitChars[d] = c

DigitVal(c) == (CHOOSE d \in 1..10 : DigitChars[d] = c) - 1

IsSpace(c) == c = " "

\* the number of leading characters of s that satisfy the class
RECURSIVE SpanDigits(_)
SpanDigits(s) ==
    IF s = <<>> \/ ~IsDigit(Head(s)) THEN 0 ELSE 1 + SpanDigits(Tail(s))

RECURSIVE SpanSpaces(_)
SpanSpaces(s) ==
    IF s = <<>> \/ ~IsSpace(Head(s)) THEN 0 ELSE 1 + SpanSpaces(Tail(s))

\* String.prototype.substr(start, length): a negative length counts as 0
substr(s, from, len) ==
    LET lo == IF from > Len(s) THEN Len(s) ELSE from
        ln == IF len < 0 THEN 0
              ELSE IF lo + len > Len(s) THEN Len(s) - lo ELSE len
    IN  SubSeq(s, lo + 1, lo + ln)

\* String.prototype.substr(start)
substrFrom(s, from) == substr(s, from, Len(s))

\* String.prototype.indexOf(c) of a single character: 0-based, -1 if absent
indexOf(s, c) ==
    IF \E k \in 1..Len(s) : s[k] = c
    THEN (CHOOSE k \in 1..Len(s) : s[k] = c /\ \A j \in 1..(k - 1) : s[j] # c) - 1
    ELSE 0 - 1

\* String.prototype.trim
RECURSIVE trimEnd(_)
trimEnd(s) ==
    IF s # <<>> /\ IsSpace(s[Len(s)]) THEN trimEnd(SubSeq(s, 1, Len(s) - 1)) ELSE s

trim(s) == trimEnd(substrFrom(s, SpanSpaces(s)))

\* the value of a run of digits
RECURSIVE DigitsValue(_)
DigitsValue(s) ==
    IF s = <<>> THEN 0
    ELSE 10 * DigitsValue(SubSeq(s, 1, Len(s) - 1)) + DigitVal(s[Len(s)])

\* the decimal digits of a natural number
RECURSIVE NatToString(_)
NatToString(k) ==
    IF k < 10 THEN <<DigitChars[k + 1]>>
    ELSE NatToString(k \div 10) \o <<DigitChars[(k % 10) + 1]>>

\* ToNumber / parseFloat of the text of a decimal d+ or d+.d{1,2}: hundredths
ToNumber(s) ==
    LET ip == SpanDigits(s)
        rest == substrFrom(s, ip)
        fr == IF rest # <<>> /\ Head(rest) = "."
              THEN substr(rest, 1, SpanDigits(Tail(rest))) ELSE <<>>
        pad == IF Len(fr) = 0 THEN <<"0", "0">>
               ELSE IF Len(fr) = 1 THEN fr \o <<"0">> ELSE SubSeq(fr, 1, 2)
    IN  IF ip = 0 THEN NaN
        ELSE DigitsValue(substr(s, 0, ip)) * 100 + DigitsValue(pad)

\* Number.prototype.toString of a number held in hundredths
NumberToString(x) ==
    LET ip == NatToString(x \div 100)
        h == x % 100
    IN  IF x = NaN THEN <<"N", "a", "N">>
        ELSE IF h = 0 THEN ip
        ELSE IF h % 10 = 0 THEN ip \o <<".", DigitChars[(h \div 10) + 1]>>
        ELSE ip \o <<".", DigitChars[(h \div 10) + 1], DigitChars[(h % 10) + 1]>>

\* parseInt(string, 10): the leading digits as a number, NaN when there are none
parseIntStr(s) ==
    LET body == substrFrom(s, SpanSpaces(s))
        k == SpanDigits(body)
    IN  IF k = 0 THEN NaN ELSE DigitsValue(substr(body, 0, k)) * 100

\* parseInt of any value: the value is converted to a string first
parseInt(x) ==
    CASE x.t = "str" -> parseIntStr(x.v)
      [] x.t = "num" -> parseIntStr(NumberToString(x.v))
      [] OTHER -> NaN

\* a % b on numbers
jsMod(a, b) == IF a = NaN \/ b = NaN \/ b = 0 THEN NaN ELSE a % b

\* a <= b on numbers
jsLe(a, b) == a # NaN /\ b # NaN /\ a <= b

\* a === b, a >= b, a < b on numbers: false as soon as one is NaN
jsEq(a, b) == a # NaN /\ b # NaN /\ a = b
jsGe(a, b) == a # NaN /\ b # NaN /\ a >= b
jsLt(a, b) == a # NaN /\ b # NaN /\ a < b

\* String.prototype.replace(/0$/, '')
replaceTrailingZero(s) ==
    IF s # <<>> /\ s[Len(s)] = "0" THEN SubSeq(s, 1, Len(s) - 1) ELSE s

----------------------------------------------------------------------------
(* The combinators (lines 89-161).  e holds the rule text and the number   *)
(* of the evaluation; pos0 is the cursor when the parser is entered.       *)
(* choice and sequence are given the outcomes r1, r2, ... of their parsers *)
(* run in order, each from the cursor the one before left, and use only    *)
(* those the loop of the source reaches; len is parserSyntax.length.       *)
(* A parser is run by call(p, pos0, e), p the name of its function.        *)

\* the record of one parser call
Called(name, entry, exit, ok) == <<name, entry, exit, ok>>

\* the place of a parser that parserSyntax does not have
Unused == [ok |-> FALSE, val |-> Null, pos |-> 0, tr |-> <<>>]

\* truthiness of a value; arrays are always truthy
Truthy(x) ==
    CASE x.t = "null" -> FALSE
      [] x.t = "undef" -> FALSE
      [] x.t = "bool" -> x.v
      [] x.t = "num" -> x.v # 0 /\ x.v # NaN
      [] x.t = "str" -> x.v # <<>>
      [] OTHER -> TRUE

\* array[k] (0-based); undefined outside the array
At(a, k) == IF k >= 0 /\ k < Len(a.v) THEN a.v[k + 1] ELSE Undefined

\* x.length
lengthOf(x) == IF x.t \in {"str", "arr"} THEN Num(Len(x.v) * 100) ELSE Undefined

\* Array.prototype.concat(x): an array argument is spread, any other appended
concat(a, x) == IF x.t = "arr" THEN a \o x.v ELSE Append(a, x)

\* the calls made by the first k parsers
CallsUpTo(k, r1, r2, r3, r4, r5, r6) ==
    CASE k = 1 -> r1.tr
      [] k = 2 -> r1.tr \o r2.tr
      [] k = 3 -> r1.tr \o r2.tr \o r3.tr
      [] k = 4 -> r1.tr \o r2.tr \o r3.tr \o r4.tr
      [] k = 5 -> r1.tr \o r2.tr \o r3.tr \o r4.tr \o r5.tr
      [] k = 6 -> r1.tr \o r2.tr \o r3.tr \o r4.tr \o r5.tr \o r6.tr

\* the k-th outcome
Nth(k, r1, r2, r3, r4, r5, r6) ==
    CASE k = 1 -> r1 [] k = 2 -> r2 [] k = 3 -> r3
      [] k = 4 -> r4 [] k = 5 -> r5 [] k = 6 -> r6

\* the values of the first k parsers
ResultsUpTo(k, r1, r2, r3, r4, r5, r6) ==
    CASE k = 1 -> <<r1.val>>
      [] k = 2 -> <<r1.val, r2.val>>
      [] k = 3 -> <<r1.val, r2.val, r3.val>>
      [] k = 4 -> <<r1.val, r2.val, r3.val, r4.val>>
      [] k = 5 -> <<r1.val, r2.val, r3.val, r4.val, r5.val>>
      [] k = 6 -> <<r1.val, r2.val, r3.val, r4.val, r5.val, r6.val>>

\* what a function declaration returns after the parser calls of r
Return(name, pos0, r, x) ==
    [ok |-> x.t # "null", val |-> x, pos |-> r.pos,
     tr |-> Append(r.tr, Called(name, pos0, r.pos, x.t # "null"))]

\* choice with `if (result)` in place of `if (result !== null)`
choice_truthy(pos0, len, r1, r2, r3, r4, r5, r6) ==
    LET found == \E k \in 1..len : Truthy(Nth(k, r1, r2, r3, r4, r5, r6).val)
        last == IF found
                THEN CHOOSE k \in 1..len :
                        /\ Truthy(Nth(k, r1, r2, r3, r4, r5, r6).val)
                        /\ \A j \in 1..(k - 1) :
                              ~Truthy(Nth(j, r1, r2, r3, r4, r5, r6).val)
                ELSE len
        r == Nth(last, r1, r2, r3, r4, r5, r6)
    IN  IF found
        THEN [ok |-> TRUE, val |-> r.val, pos |-> r.pos,
              tr |-> Append(CallsUpTo(last, r1, r2, r3, r4, r5, r6),
                            Called("choice", pos0, r.pos, TRUE))]
        ELSE [ok |-> FALSE, val |-> Null, pos |-> r.pos,
              tr |-> Append(CallsUpTo(last, r1, r2, r3, r4, r5, r6),
                            Called("choice", pos0, r.pos, FALSE))]

\* for (i = 0; i < parserSyntax.length; i++): the first parser whose result is
\* not null ends the loop; last is the parser the loop ended on
choice(pos0, len, r1, r2, r3, r4, r5, r6) ==
    LET found == \E k \in 1..len : Nth(k, r1, r2, r3, r4, r5, r6).ok
        last == IF found
                THEN CHOOSE k \in 1..len :
                        /\ Nth(k, r1, r2, r3, r4, r5, r6).ok
                        /\ \A j \in 1..(k - 1) : ~Nth(j, r1, r2, r3, r4, r5, r6).ok
                ELSE len
        r == Nth(last, r1, r2, r3, r4, r5, r6)
    IN  IF found
        THEN [ok |-> TRUE, val |-> r.val, pos |-> r.pos,
              tr |-> Append(CallsUpTo(last, r1, r2, r3, r4, r5, r6),
                            Called("choice", pos0, r.pos, TRUE))]
        ELSE [ok |-> FALSE, val |-> Null, pos |-> r.pos,
              tr |-> Append(CallsUpTo(last, r1, r2, r3, r4, r5, r6),
                            Called("choice", pos0, r.pos, FALSE))]

\* sequence without `pos = originalPos`
sequence_norewind(originalPos, len, r1, r2, r3, r4, r5, r6) ==
    LET failed == CHOOSE k \in 1..len :
                      /\ ~Nth(k, r1, r2, r3, r4, r5, r6).ok
                      /\ \A j \in 1..(k - 1) : Nth(j, r1, r2, r3, r4, r5, r6).ok
        end == Nth(len, r1, r2, r3, r4, r5, r6).pos
        stop == Nth(failed, r1, r2, r3, r4, r5, r6).pos
    IN  IF \A k \in 1..len : Nth(k, r1, r2, r3, r4, r5, r6).ok
        THEN [ok |-> TRUE, val |-> Arr(ResultsUpTo(len, r1, r2, r3, r4, r5, r6)),
              pos |-> end,
              tr |-> Append(CallsUpTo(len, r1, r2, r3, r4, r5, r6),
                            Called("sequence", originalPos, end, TRUE))]
        ELSE [ok |-> FALSE, val |-> Null, pos |-> stop,
              tr |-> Append(CallsUpTo(failed, r1, r2, r3, r4, r5, r6),
                            Called("sequence", originalPos, stop, FALSE))]

\* for (i = 0; i < parserSyntax.length; i++): the first parser whose result is
\* null ends the loop, with the cursor put back
sequence(originalPos, len, r1, r2, r3, r4, r5, r6) ==
    LET failed == CHOOSE k \in 1..len :
                      /\ ~Nth(k, r1, r2, r3, r4, r5, r6).ok
                      /\ \A j \in 1..(k - 1) : Nth(j, r1, r2, r3, r4, r5, r6).ok
        end == Nth(len, r1, r2, r3, r4, r5, r6).pos
    IN  IF \A k \in 1..len : Nth(k, r1, r2, r3, r4, r5, r6).ok
        THEN [ok |-> TRUE, val |-> Arr(ResultsUpTo(len, r1, r2, r3, r4, r5, r6)),
              pos |-> end,
              tr |-> Append(CallsUpTo(len, r1, r2, r3, r4, r5, r6),
                            Called("sequence", originalPos, end, TRUE))]
        ELSE [ok |-> FALSE, val |-> Null, pos |-> originalPos,
              tr |-> Append(CallsUpTo(failed, r1, r2, r3, r4, r5, r6),
                            Called("sequence", originalPos, originalPos, FALSE))]

makeStringParser(s, pos0, e) ==
    IF substr(e.rule, pos0, Len(s)) = s
    THEN [ok |-> TRUE, val |-> Str(s), pos |-> pos0 + Len(s),
          tr |-> <<Called("makeStringParser", pos0, pos0 + Len(s), TRUE)>>]
    ELSE [ok |-> FALSE, val |-> Null, pos |-> pos0,
          tr |-> <<Called("makeStringParser", pos0, pos0, FALSE)>>]

\* the two expressions used: /^\s+/ and /^\d+/
makeRegexParser(regex, pos0, e) ==
    LET rest == substrFrom(e.rule, pos0)
        k == IF regex = "\\s+" THEN SpanSpaces(rest) ELSE SpanDigits(rest)
    IN  IF k = 0
        THEN [ok |-> FALSE, val |-> Null, pos |-> pos0,
              tr |-> <<Called("makeRegexParser", pos0, pos0, FALSE)>>]
        ELSE [ok |-> TRUE, val |-> Str(substr(rest, 0, k)), pos |-> pos0 + k,
              tr |-> <<Called("makeRegexParser", pos0, pos0 + k, TRUE)>>]

----------------------------------------------------------------------------
(* The parsers of lines 58-80.                                             *)

whitespace(pos0, e) == makeRegexParser("\\s+", pos0, e)
value(pos0, e) == makeRegexParser("\\d+", pos0, e)
_n_(pos0, e) == makeStringParser(<<"n">>, pos0, e)
_i_(pos0, e) == makeStringParser(<<"i">>, pos0, e)
_f_(pos0, e) == makeStringParser(<<"f">>, pos0, e)
_t_(pos0, e) == makeStringParser(<<"t">>, pos0, e)
_v_(pos0, e) == makeStringParser(<<"v">>, pos0, e)
_w_(pos0, e) == makeStringParser(<<"w">>, pos0, e)
_is_(pos0, e) == makeStringParser(<<"i", "s">>, pos0, e)
_isnot_(pos0, e) == makeStringParser(<<"i", "s", " ", "n", "o", "t">>, pos0, e)
_isnot_sign_(pos0, e) == makeStringParser(<<"!", "=">>, pos0, e)
_equal_(pos0, e) == makeStringParser(<<"=">>, pos0, e)
_mod_(pos0, e) == makeStringParser(<<"m", "o", "d">>, pos0, e)
_percent_(pos0, e) == makeStringParser(<<"%">>, pos0, e)
_not_(pos0, e) == makeStringParser(<<"n", "o", "t">>, pos0, e)
_in_(pos0, e) == makeStringParser(<<"i", "n">>, pos0, e)
_within_(pos0, e) == makeStringParser(<<"w", "i", "t", "h", "i", "n">>, pos0, e)
_range_(pos0, e) == makeStringParser(<<".", ".">>, pos0, e)
_comma_(pos0, e) == makeStringParser(<<",">>, pos0, e)
_or_(pos0, e) == makeStringParser(<<"o", "r">>, pos0, e)
_and_(pos0, e) == makeStringParser(<<"a", "n", "d">>, pos0, e)

----------------------------------------------------------------------------
(* The operands (lines 166-248).                                           *)

\* p(), parserSyntax[i](): the call of the parser function named p
RECURSIVE call(_, _, _)

\* x || 0
orZero(x) == IF Truthy(x) THEN x ELSE Num(0)

\* number % 1
fraction(e) == jsMod(ToNumber(e.number), 100)

i(pos0, e) ==
    LET res == call("_i_", pos0, e)
    IN  IF ~res.ok THEN Return("i", pos0, res, Null)
        ELSE Return("i", pos0, res, Num(parseInt(Str(e.number))))

n(pos0, e) ==
    LET res == call("_n_", pos0, e)
    IN  IF ~res.ok THEN Return("n", pos0, res, Null)
        ELSE Return("n", pos0, res, Num(ToNumber(e.number)))

f(pos0, e) ==
    LET res == call("_f_", pos0, e)
    IN  IF ~res.ok THEN Return("f", pos0, res, Null)
        ELSE Return("f", pos0, res, Num(fraction(e)))

t(pos0, e) ==
    LET res == call("_t_", pos0, e)
        s == replaceTrailingZero(NumberToString(fraction(e)))
    IN  IF ~res.ok THEN Return("t", pos0, res, Null)
        ELSE Return("t", pos0, res, orZero(Num(parseInt(Str(s)))))

\* ''.length is 0, and NaN + 0 is NaN
v(pos0, e) ==
    LET res == call("_v_", pos0, e)
        d == parseInt(Num(fraction(e)))
    IN  IF ~res.ok THEN Return("v", pos0, res, Null)
        ELSE Return("v", pos0, res, Num(IF d = NaN THEN NaN ELSE d + Len(<<>>)))

\* reads the token of v; a number has no length
w(pos0, e) ==
    LET res == call("_v_", pos0, e)
        s == replaceTrailingZero(NumberToString(fraction(e)))
    IN  IF ~res.ok THEN Return("w", pos0, res, Null)
        ELSE Return("w", pos0, res, orZero(lengthOf(Num(parseInt(Str(s))))))

operand(pos0, e) ==
    LET r1 == call("n", pos0, e)
        r2 == call("i", r1.pos, e)
        r3 == call("f", r2.pos, e)
        r4 == call("t", r3.pos, e)
        r5 == call("v", r4.pos, e)
        r6 == call("w", r5.pos, e)
    IN  choice(pos0, 6, r1, r2, r3, r4, r5, r6)

----------------------------------------------------------------------------
(* The grammar (lines 251-434).                                            *)

mod(pos0, e) ==
    LET r1 == call("operand", pos0, e)
        r2 == call("whitespace", r1.pos, e)
        c1 == call("_mod_", r2.pos, e)
        c2 == call("_percent_", c1.pos, e)
        r3 == choice(r2.pos, 2, c1, c2, Unused, Unused, Unused, Unused)
        r4 == call("whitespace", r3.pos, e)
        r5 == call("value", r4.pos, e)
        res == sequence(pos0, 5, r1, r2, r3, r4, r5, Unused)
    IN  IF ~res.ok THEN Return("mod", pos0, res, Null)
        ELSE Return("mod", pos0, res,
                    Num(jsMod(parseInt(At(res.val, 0)), parseInt(At(res.val, 4)))))

expression(pos0, e) ==
    LET r1 == call("mod", pos0, e)
        r2 == call("operand", r1.pos, e)
    IN  choice(pos0, 2, r1, r2, Unused, Unused, Unused, Unused)

not(pos0, e) ==
    LET r1 == call("whitespace", pos0, e)
        r2 == call("_not_", r1.pos, e)
        res == sequence(pos0, 2, r1, r2, Unused, Unused, Unused, Unused)
    IN  IF ~res.ok THEN Return("not", pos0, res, Null)
        ELSE Return("not", pos0, res, At(res.val, 1))

is(pos0, e) ==
    LET r1 == call("expression", pos0, e)
        r2 == call("whitespace", r1.pos, e)
        r3 == call("_is_", r2.pos, e)
        r4 == call("whitespace", r3.pos, e)
        r5 == call("value", r4.pos, e)
        res == sequence(pos0, 5, r1, r2, r3, r4, r5, Unused)
    IN  IF res.ok
        THEN Return("is", pos0, res,
                    Bool(jsEq(At(res.val, 0).v, parseInt(At(res.val, 4)))))
        ELSE Return("is", pos0, res, Null)

isnot(pos0, e) ==
    LET r1 == call("expression", pos0, e)
        r2 == call("whitespace", r1.pos, e)
        c1 == call("_isnot_", r2.pos, e)
        c2 == call("_isnot_sign_", c1.pos, e)
        r3 == choice(r2.pos, 2, c1, c2, Unused, Unused, Unused, Unused)
        r4 == call("whitespace", r3.pos, e)
        r5 == call("value", r4.pos, e)
        res == sequence(pos0, 5, r1, r2, r3, r4, r5, Unused)
    IN  IF res.ok
        THEN Return("isnot", pos0, res,
                    Bool(~jsEq(At(res.val, 0).v, parseInt(At(res.val, 4)))))
        ELSE Return("isnot", pos0, res, Null)

\* the loops of not_in and _in: some parseInt(range_list[k], 10) === x
includes(range_list, x) ==
    \E k \in 0..(Len(range_list.v) - 1) : jsEq(parseInt(At(range_list, k)), x)

\* the loop with i < right
RECURSIVE rangeLoop_exclusive(_, _)
rangeLoop_exclusive(left, right) ==
    IF left = NaN \/ right = NaN \/ left >= right THEN <<>>
    ELSE <<Num(left)>> \o rangeLoop_exclusive(left + 100, right)

\* for (i = left; i <= right; i++) array.push(i)
RECURSIVE rangeLoop(_, _)
rangeLoop(left, right) ==
    IF left = NaN \/ right = NaN \/ left > right THEN <<>>
    ELSE <<Num(left)>> \o rangeLoop(left + 100, right)

range(pos0, e) ==
    LET r1 == call("value", pos0, e)
        r2 == call("_range_", r1.pos, e)
        r3 == call("value", r2.pos, e)
        res == sequence(pos0, 3, r1, r2, r3, Unused, Unused, Unused)
    IN  IF res.ok
        THEN Return("range", pos0, res,
                    Arr(rangeLoop(parseInt(At(res.val, 0)),
                                  parseInt(At(res.val, 2)))))
        ELSE Return("range", pos0, res, Null)

rangeTail(pos0, e) ==
    LET r1 == call("_comma_", pos0, e)
        r2 == call("rangeList", r1.pos, e)
        res == sequence(pos0, 2, r1, r2, Unused, Unused, Unused, Unused)
    IN  IF res.ok
        THEN Return("rangeTail", pos0, res, At(res.val, 1))
        ELSE Return("rangeTail", pos0, res, Null)

\* the loop of nOrMore: the results pushed, the cursor and the calls made
RECURSIVE nOrMoreLoop(_, _, _)
nOrMoreLoop(p, pos0, e) ==
    LET parsed == call(p, pos0, e)
        rest == nOrMoreLoop(p, parsed.pos, e)
    IN  IF parsed.ok
        THEN [val |-> <<parsed.val>> \o rest.val, pos |-> rest.pos,
              tr |-> parsed.tr \o rest.tr]
        ELSE [val |-> <<>>, pos |-> parsed.pos, tr |-> parsed.tr]

nOrMore(k, p, pos0, e) ==
    LET r == nOrMoreLoop(p, pos0, e)
    IN  IF Len(r.val) < k
        THEN [ok |-> FALSE, val |-> Null, pos |-> pos0,
              tr |-> Append(r.tr, Called("nOrMore", pos0, pos0, FALSE))]
        ELSE [ok |-> TRUE, val |-> Arr(r.val), pos |-> r.pos,
              tr |-> Append(r.tr, Called("nOrMore", pos0, r.pos, TRUE))]

rangeList(pos0, e) ==
    LET c1 == call("range", pos0, e)
        c2 == call("value", c1.pos, e)
        r1 == choice(pos0, 2, c1, c2, Unused, Unused, Unused, Unused)
        r2 == nOrMore(0, "rangeTail", r1.pos, e)
        res == sequence(pos0, 2, r1, r2, Unused, Unused, Unused, Unused)
        first == concat(<<>>, At(res.val, 0))
        tail == At(At(res.val, 1), 0)
    IN  IF res.ok
        THEN Return("rangeList", pos0, res,
                    Arr(IF Truthy(tail) THEN concat(first, tail) ELSE first))
        ELSE Return("rangeList", pos0, res, Null)

not_in(pos0, e) ==
    LET r1 == call("expression", pos0, e)
        r2 == call("whitespace", r1.pos, e)
        r3 == call("_isnot_sign_", r2.pos, e)
        r4 == call("whitespace", r3.pos, e)
        r5 == call("rangeList", r4.pos, e)
        res == sequence(pos0, 5, r1, r2, r3, r4, r5, Unused)
    IN  IF res.ok
        THEN Return("not_in", pos0, res,
                    Bool(~includes(At(res.val, 4), At(res.val, 0).v)))
        ELSE Return("not_in", pos0, res, Null)

\* result[1][0] === 'not'
isNot(x) == x.t = "str" /\ x.v = <<"n", "o", "t">>

_in(pos0, e) ==
    LET r1 == call("expression", pos0, e)
        r2 == nOrMore(0, "not", r1.pos, e)
        r3 == call("whitespace", r2.pos, e)
        c1 == call("_in_", r3.pos, e)
        c2 == call("_equal_", c1.pos, e)
        r4 == choice(r3.pos, 2, c1, c2, Unused, Unused, Unused, Unused)
        r5 == call("whitespace", r4.pos, e)
        r6 == call("rangeList", r5.pos, e)
        res == sequence(pos0, 6, r1, r2, r3, r4, r5, r6)
        negated == isNot(At(At(res.val, 1), 0))
    IN  IF res.ok
        THEN Return("_in", pos0, res,
                    Bool(IF includes(At(res.val, 5), At(res.val, 0).v)
                         THEN ~negated ELSE negated))
        ELSE Return("_in", pos0, res, Null)

within(pos0, e) ==
    LET r1 == call("expression", pos0, e)
        r2 == nOrMore(0, "not", r1.pos, e)
        r3 == call("whitespace", r2.pos, e)
        r4 == call("_within_", r3.pos, e)
        r5 == call("whitespace", r4.pos, e)
        r6 == call("rangeList", r5.pos, e)
        res == sequence(pos0, 6, r1, r2, r3, r4, r5, r6)
        range_list == At(res.val, 5)
        negated == isNot(At(At(res.val, 1), 0))
        x == At(res.val, 0).v
    IN  IF res.ok
        THEN Return("within", pos0, res,
                    Bool(IF jsGe(x, parseInt(At(range_list, 0)))
                            /\ jsLt(x, parseInt(At(range_list, Len(range_list.v) - 1)))
                         THEN ~negated ELSE negated))
        ELSE Return("within", pos0, res, Null)

relation(pos0, e) ==
    LET r1 == call("is", pos0, e)
        r2 == call("not_in", r1.pos, e)
        r3 == call("isnot", r2.pos, e)
        r4 == call("_in", r3.pos, e)
        r5 == call("within", r4.pos, e)
    IN  choice(pos0, 5, r1, r2, r3, r4, r5, Unused)

\* a && b, a || b
jsAnd(a, b) == IF Truthy(a) THEN b ELSE a
jsOr(a, b) == IF Truthy(a) THEN a ELSE b

\* in and, or and condition `if (result)` tests what sequence returned: an
\* array, which is truthy, or null

and(pos0, e) ==
    LET r1 == call("relation", pos0, e)
        r2 == call("whitespace", r1.pos, e)
        r3 == call("_and_", r2.pos, e)
        r4 == call("whitespace", r3.pos, e)
        r5 == call("condition", r4.pos, e)
        res == sequence(pos0, 5, r1, r2, r3, r4, r5, Unused)
    IN  IF res.ok
        THEN Return("and", pos0, res, jsAnd(At(res.val, 0), At(res.val, 4)))
        ELSE Return("and", pos0, res, Null)

or(pos0, e) ==
    LET r1 == call("relation", pos0, e)
        r2 == call("whitespace", r1.pos, e)
        r3 == call("_or_", r2.pos, e)
        r4 == call("whitespace", r3.pos, e)
        r5 == call("condition", r4.pos, e)
        res == sequence(pos0, 5, r1, r2, r3, r4, r5, Unused)
    IN  IF res.ok
        THEN Return("or", pos0, res, jsOr(At(res.val, 0), At(res.val, 4)))
        ELSE Return("or", pos0, res, Null)

condition(pos0, e) ==
    LET c1 == call("and", pos0, e)
        c2 == call("or", c1.pos, e)
        c3 == call("relation", c2.pos, e)
        r1 == choice(pos0, 3, c1, c2, c3, Unused, Unused, Unused)
        res == sequence(pos0, 1, r1, Unused, Unused, Unused, Unused, Unused)
    IN  IF res.ok
        THEN Return("condition", pos0, res, At(res.val, 0))
        ELSE Return("condition", pos0, res, Bool(FALSE))

start(pos0, e) == call("condition", pos0, e)

call(p, pos0, e) ==
    CASE p = "whitespace" -> whitespace(pos0, e)
      [] p = "value" -> value(pos0, e)
      [] p = "n" -> n(pos0, e)
      [] p = "i" -> i(pos0, e)
      [] p = "f" -> f(pos0, e)
      [] p = "t" -> t(pos0, e)
      [] p = "v" -> v(pos0, e)
      [] p = "w" -> w(pos0, e)
      [] p = "operand" -> operand(pos0, e)
      [] p = "mod" -> mod(pos0, e)
      [] p = "expression" -> expression(pos0, e)
      [] p = "not" -> not(pos0, e)
      [] p = "is" -> is(pos0, e)
      [] p = "isnot" -> isnot(pos0, e)
      [] p = "range" -> range(pos0, e)
      [] p = "rangeTail" -> rangeTail(pos0, e)
      [] p = "rangeList" -> rangeList(pos0, e)
      [] p = "not_in" -> not_in(pos0, e)
      [] p = "_in" -> _in(pos0, e)
      [] p = "within" -> within(pos0, e)
      [] p = "relation" -> relation(pos0, e)
      [] p = "and" -> and(pos0, e)
      [] p = "or" -> or(pos0, e)
      [] p = "condition" -> condition(pos0, e)
      [] p = "_n_" -> _n_(pos0, e)
      [] p = "_i_" -> _i_(pos0, e)
      [] p = "_f_" -> _f_(pos0, e)
      [] p = "_t_" -> _t_(pos0, e)
      [] p = "_v_" -> _v_(pos0, e)
      [] p = "_w_" -> _w_(pos0, e)
      [] p = "_is_" -> _is_(pos0, e)
      [] p = "_isnot_" -> _isnot_(pos0, e)
      [] p = "_isnot_sign_" -> _isnot_sign_(pos0, e)
      [] p = "_equal_" -> _equal_(pos0, e)
      [] p = "_mod_" -> _mod_(pos0, e)
      [] p = "_percent_" -> _percent_(pos0, e)
      [] p = "_not_" -> _not_(pos0, e)
      [] p = "_in_" -> _in_(pos0, e)
      [] p = "_within_" -> _within_(pos0, e)
      [] p = "_range_" -> _range_(pos0, e)
      [] p = "_comma_" -> _comma_(pos0, e)
      [] p = "_or_" -> _or_(pos0, e)
      [] p = "_and_" -> _and_(pos0, e)

----------------------------------------------------------------------------
(* The arguments of a call: rule texts written by the grammar of lines     *)
(* 25-41, texts outside it, and non-negative decimals.                     *)

Sp == <<" ">>
KwIs == <<"i", "s">>
KwIsNot == <<"i", "s", " ", "n", "o", "t">>
KwNe == <<"!", "=">>
KwEq == <<"=">>
KwIn == <<"i", "n">>
KwNotIn == <<"n", "o", "t", " ", "i", "n">>
KwWithin == <<"w", "i", "t", "h", "i", "n">>
KwNotWithin == <<"n", "o", "t", " ", "w", "i", "t", "h", "i", "n">>
KwAnd == <<"a", "n", "d">>
KwOr == <<"o", "r">>
DotDot == <<".", ".">>

\* a rule's integer literals
Values == {NatToString(k) : k \in 0..MaxValue}

Ranges == {a \o DotDot \o b : a \in Values, b \in Values}

\* range lists of several items: of a value, a range and an empty range in
\* every order, and longer ones of values and ranges
PairItems ==
    {NatToString(MaxValue), <<"0">> \o DotDot \o <<"1">>,
     NatToString(MaxValue) \o DotDot \o <<"0">>}

LongItems == {NatToString(MaxValue), <<"0">> \o DotDot \o <<"1">>}

RECURSIVE ListsOf(_, _)
ListsOf(items, k) ==
    IF k = 1 THEN items
    ELSE {x \o <<",">> \o y : x \in items, y \in ListsOf(items, k - 1)}

PairLists == ListsOf(PairItems, 2)

LongLists == UNION {ListsOf(LongItems, k) : k \in 3..MaxItems}

RangeLists == Values \cup Ranges \cup PairLists \cup LongLists

Operands == {<<"n">>, <<"i">>, <<"f">>, <<"t">>, <<"v">>, <<"w">>}

Exprs ==
    Operands \cup
    {<<"n">> \o Sp \o m \o Sp \o k :
        m \in {<<"m", "o", "d">>, <<"%">>}, k \in {<<"0">>, NatToString(MaxValue)}}

\* every expression in every kind of relation
ExprRelations ==
    {x \o Sp \o o \o Sp \o <<"1">> : x \in Exprs, o \in {KwIs, KwNe}}
    \cup {x \o Sp \o o \o Sp \o <<"0">> \o DotDot \o <<"1">> :
             x \in Exprs, o \in {KwIn, KwWithin}}

\* n in every relation, against every value, one-item list and longer list
ListRelations ==
    {<<"n">> \o Sp \o o \o Sp \o k : o \in {KwIs, KwIsNot, KwNe}, k \in Values}
    \cup {<<"n">> \o Sp \o o \o Sp \o l :
             o \in {KwIn, KwNotIn, KwWithin, KwNotWithin}, l \in Values \cup Ranges}
    \cup {<<"n">> \o Sp \o o \o Sp \o l :
             o \in {KwEq, KwNe, KwIn, KwWithin}, l \in PairLists}
    \cup {<<"n">> \o Sp \o KwIn \o Sp \o l : l \in LongLists}

\* the relations joined into conditions
BaseRelations ==
    { <<"n">> \o Sp \o KwIs \o Sp \o <<"1">>,
      <<"i">> \o Sp \o KwIn \o Sp \o <<"0">> \o DotDot \o <<"1">> }

Connectives == {Sp \o KwAnd \o Sp, Sp \o KwOr \o Sp}

RECURSIVE ConditionsOf(_)
ConditionsOf(k) ==
    IF k = 1 THEN BaseRelations
    ELSE {r \o c \o rest :
             r \in BaseRelations, c \in Connectives, rest \in ConditionsOf(k - 1)}

Conditions == UNION {ConditionsOf(k) : k \in 2..MaxRelations}

\* text that is no condition
Garbage == {<<"x">>, <<"n">> \o Sp \o KwIs, <<"1">>}

\* what follows a condition and is not part of one
Trailers == {Sp \o <<"x">>, Sp \o KwAnd \o Sp \o <<"x">>, Sp \o KwOr \o Sp \o <<"x">>,
             Sp \o KwAnd, <<",">>}

Trailing ==
    {c \o g : c \in BaseRelations, g \in Trailers}
    \cup {c \o g : c \in ConditionsOf(2), g \in {Sp \o <<"x">>, Sp \o KwAnd \o Sp \o <<"x">>}}

\* a sample annotation
Sample == <<" ", "@", "i", "n", "t", "e", "g", "e", "r", " ", "1">>

\* the rules with an annotation, and some without
Rules ==
    {c \o Sample :
        c \in ExprRelations \cup ListRelations \cup Conditions \cup Garbage
              \cup Trailing \cup {<<>>, Sp}}
    \cup BaseRelations \cup ConditionsOf(2) \cup Garbage \cup {<<>>, Sp}

Fractions == {<<>>, <<".", "5">>, <<".", "5", "0">>}

Numbers == {NatToString(k) \o fr : k \in 0..MaxInt, fr \in Fractions}

----------------------------------------------------------------------------
(* pluralRuleParser(rule, number), lines 21-452.                           *)

Init ==
    /\ ruleArg \in Rules
    /\ number \in Numbers
    /\ rule = ruleArg
    /\ pos = 0
    /\ result = Undefined
    /\ trace = <<>>
    /\ outcome = "none"
    /\ warned = FALSE
    /\ pc = "call"

\* line 45
Truncate ==
    /\ pc = "call"
    /\ rule' = trim(substr(rule, 0, indexOf(rule, "@")))
    /\ pc' = "truncated"
    /\ UNCHANGED <<ruleArg, number, pos, result, trace, outcome, warned>>

\* lines 47-50
ReturnEmpty ==
    /\ pc = "truncated"
    /\ Len(rule) = 0
    /\ outcome' = "true"
    /\ pc' = "done"
    /\ UNCHANGED <<ruleArg, number, rule, pos, result, trace, warned>>

\* lines 53-436
Parse ==
    /\ pc = "truncated"
    /\ Len(rule) # 0
    /\ LET r == start(0, [rule |-> rule, number |-> number])
       IN  /\ result' = r.val
           /\ pos' = r.pos
           /\ trace' = r.tr
    /\ pc' = "parsed"
    /\ UNCHANGED <<ruleArg, number, rule, outcome, warned>>

\* lines 443-451
Finish ==
    /\ pc = "parsed"
    /\ IF IsNull(result)
       THEN /\ outcome' = "throw"
            /\ warned' = warned
       ELSE /\ warned' = (pos # Len(rule))
            /\ outcome' = IF Truthy(result) THEN "true" ELSE "false"
    /\ pc' = "done"
    /\ UNCHANGED <<ruleArg, number, rule, pos, result, trace>>

Next == Truncate \/ ReturnEmpty \/ Parse \/ Finish

Spec == Init /\ [][Next]_vars

----------------------------------------------------------------------------
(* What the documentation says of a rule, read off the rule text without   *)
(* the parser: the text is cut at its keywords and commas.                 *)

KwNot == <<"n", "o", "t">>

Range(q) == {q[k] : k \in DOMAIN q}

\* the evaluation of the call
env == [rule |-> rule, number |-> number]

\* where kw first occurs in s (1-based), 0 when it does not
Find(s, kw) ==
    LET hits == {k \in 1..(Len(s) - Len(kw) + 1) : SubSeq(s, k, k + Len(kw) - 1) = kw}
    IN  IF hits = {} THEN 0 ELSE CHOOSE k \in hits : \A j \in hits : k <= j

EndsWith(s, x) == Len(s) >= Len(x) /\ SubSeq(s, Len(s) - Len(x) + 1, Len(s)) = x

\* the pieces of s between the occurrences of key
RECURSIVE SplitAt(_, _)
SplitAt(s, key) ==
    LET k == Find(s, key)
    IN  IF k = 0 THEN <<s>>
        ELSE <<SubSeq(s, 1, k - 1)>> \o SplitAt(SubSeq(s, k + Len(key), Len(s)), key)

\* the integers a, a + 1, ..., b
RECURSIVE Upto(_, _)
Upto(a, b) == IF a > b THEN <<>> ELSE <<a>> \o Upto(a + 1, b)

\* the integers of one list item, a value or a range a..b
ItemInts(item) ==
    LET k == Find(item, DotDot)
    IN  IF k = 0 THEN <<DigitsValue(item)>>
        ELSE Upto(DigitsValue(SubSeq(item, 1, k - 1)),
                  DigitsValue(SubSeq(item, k + 2, Len(item))))

\* the integers of a range list, item by item
RECURSIVE ListInts(_)
ListInts(l) ==
    LET k == Find(l, <<",">>)
    IN  IF k = 0 THEN ItemInts(l)
        ELSE ItemInts(SubSeq(l, 1, k - 1)) \o ListInts(SubSeq(l, k + 1, Len(l)))

\* the rule read as `E kw L` or `E not kw L`; at is the cursor where L begins
RelationParts(kw) ==
    LET key == Sp \o kw \o Sp
        k == Find(rule, key)
        left == SubSeq(rule, 1, k - 1)
        negated == EndsWith(left, Sp \o KwNot)
        E == IF negated THEN SubSeq(left, 1, Len(left) - 4) ELSE left
        L == SubSeq(rule, k + Len(key), Len(rule))
    IN  [found |-> k # 0 /\ E \in Exprs /\ L \in RangeLists,
         negated |-> negated, E |-> E, L |-> L, at |-> k + Len(key) - 1]

\* value(E), in hundredths
ValueOf(E) == expression(0, [rule |-> E, number |-> number]).val.v

\* the boolean the function hands back
Outcome(x) == IF Truthy(x) THEN "true" ELSE "false"

----------------------------------------------------------------------------
(* The claims.                                                             *)

\* C9: every call of a token parser, a combinator or a production function
\* that fails leaves the cursor where it was on entry, every call that
\* succeeds leaves it at or after that place, and the cursor is never below
\* 0 nor beyond the length of the truncated rule.
C9_CursorDiscipline ==
    pc = "parsed" =>
        /\ pos \in 0..Len(rule)
        /\ \A k \in DOMAIN trace :
              LET c == trace[k]
              IN  /\ c[2] \in 0..Len(rule)
                  /\ c[3] \in 0..Len(rule)
                  /\ (c[4] => c[3] >= c[2])
                  /\ (~c[4] => c[3] = c[2])

\* a sequence entered at 0 fails after one of its parsers has advanced
C9_Witness ==
    /\ pc = "parsed"
    /\ \E k \in DOMAIN trace :
          /\ trace[k] = Called("sequence", 0, 0, FALSE)
          /\ \E j \in 1..(k - 1) : trace[j][4] /\ trace[j][2] = 0 /\ trace[j][3] > 0

\* C10: which parsers succeed and fail, in which order and between which
\* cursor positions, where the cursor ends, and whether the error is thrown
\* and the warning logged, are for every number what they are for 0, so the
\* same for any two numbers.
C10_NumberIndependent ==
    pc = "parsed" =>
        LET r == start(0, [rule |-> rule, number |-> <<"0">>])
        IN  /\ r.tr = trace
            /\ r.pos = pos
            /\ IsNull(r.val) = IsNull(result)
            /\ (r.pos # Len(rule)) = (pos # Len(rule))

\* a rule that is true of the number and false of 0, or the other way round
C10_Witness ==
    /\ pc = "parsed"
    /\ pos = Len(rule)
    /\ result # start(0, [rule |-> rule, number |-> <<"0">>]).val

C7_InFlattenedList ==
    pc = "parsed" =>
        \A kw \in {KwIn, KwEq} :
            LET p == RelationParts(kw)
                ints == ListInts(p.L)
                list == rangeList(p.at, env).val
                x == ValueOf(p.E)
                member == \E k \in DOMAIN ints : x = 100 * ints[k]
                matched == Called("_in", 0, Len(rule), TRUE) \in Range(trace)
            IN  (p.found /\ matched) =>
                    /\ list.t = "arr"
                    /\ Len(list.v) = Len(ints)
                    /\ \A k \in DOMAIN ints : parseInt(list.v[k]) = 100 * ints[k]
                    /\ pos = Len(rule)
                    /\ result = Bool(IF p.negated THEN ~member ELSE member)

\* n in a list of three items or more, one of them a range, is true
C7_Witness ==
    /\ pc = "parsed"
    /\ RelationParts(KwIn).found
    /\ RelationParts(KwIn).L \in LongLists
    /\ Called("_in", 0, Len(rule), TRUE) \in Range(trace)
    /\ Len(ListInts(RelationParts(KwIn).L)) > 3
    /\ result = Bool(TRUE)

\* C1: called with the rule text `n is 1` and nothing after it, the function
\* returns true when the number equals 1 and false for every other number,
\* integer or not.
C1_NIsOne ==
    (pc = "done" /\ ruleArg = <<"n", " ", "i", "s", " ", "1">>) =>
        outcome = IF ToNumber(number) = 100 THEN "true" ELSE "false"

\* no production of the grammar matches at the start of the condition text
NothingMatches ==
    /\ ~operand(0, env).ok
    /\ ~value(0, env).ok
    /\ ~relation(0, env).ok
    /\ ~rangeTail(0, env).ok
    /\ ~not(0, env).ok

\* C2: when the condition text is not empty and no production matches any
\* prefix of it, the call ends in the parse error and returns no boolean.
C2_NoMatchThrows ==
    (pc = "done" /\ Len(rule) > 0 /\ NothingMatches) => outcome = "throw"

\* the relation r alone, for the number of the call
Holds(r) == Truthy(relation(0, [rule |-> r, number |-> number]).val)

\* C3: a condition is true exactly when, in one of the parts that `or`
\* separates, every relation that `and` separates is true; so
\* `R1 and R2 or R3` is (R1 and R2) or R3.
C3_AndBindsTighter ==
    (pc = "parsed" /\ rule \in Conditions) =>
        result = Bool(\E part \in Range(SplitAt(rule, Sp \o KwOr \o Sp)) :
                          \A r \in Range(SplitAt(part, Sp \o KwAnd \o Sp)) : Holds(r))

\* C4: for the number 1.50 the operand v is 2, w is 1, f is 50 and t is 5.
C4_VisibleFraction ==
    (pc = "parsed" /\ number = <<"1", ".", "5", "0">>) =>
        /\ operand(0, [rule |-> <<"v">>, number |-> number]).val = Num(2 * 100)
        /\ operand(0, [rule |-> <<"w">>, number |-> number]).val = Num(1 * 100)
        /\ operand(0, [rule |-> <<"f">>, number |-> number]).val = Num(50 * 100)
        /\ operand(0, [rule |-> <<"t">>, number |-> number]).val = Num(5 * 100)

\* C5: when the condition text is a complete condition P followed by text
\* that continues no condition, the warning is logged and the function
\* returns what it returns for P alone.
C5_TrailingText ==
    pc = "done" =>
        \A g \in Trailers :
            LET P == SubSeq(rule, 1, Len(rule) - Len(g))
            IN  (EndsWith(rule, g) /\ P \in BaseRelations \cup ConditionsOf(2)) =>
                    /\ warned
                    /\ outcome = Outcome(start(0, [rule |-> P, number |-> number]).val)

\* C8: where the rule text starts with one of the tokens n, i, f, t, v, w,
\* operand succeeds, moves the cursor one character on and returns what the
\* function of that token returns.
C8_OperandTokens ==
    (pc = "parsed" /\ <<rule[1]>> \in Operands) =>
        LET r == operand(0, env)
        IN  /\ r.ok
            /\ r.pos = 1
            /\ Called(rule[1], 0, 1, TRUE) \in Range(r.tr)

====
